---------------------------- MODULE Spec2Model ----------------------------
(***************************************************************************)
(* LibSWIFFT: the arithmetic engine of src/swifft.inl.                     *)
(*                                                                         *)
(* The FFT phase, the FFT-sum phase, the compression facade, the           *)
(* element-wise hash algebra and the batched drivers, over 16-bit signed   *)
(* lanes.  Lane arithmetic of the vector types wraps modulo 2^16.          *)
(*                                                                         *)
(* Memory is a set of disjoint arrays; a pointer is an element (or byte)   *)
(* offset into its array.  An array is a function on 0..n-1; an output     *)
(* array that a call only writes is a function on the indices written so   *)
(* far.                                                                    *)
(***************************************************************************)
EXTENDS Integers, Sequences, FiniteSets, TLC

VARIABLES
    log2o,      \* SWIFFT_LOG2_O of the build: the lane vector holds 2^log2o columns
    pc,         \* position of the running call
    call,       \* the running call: its operation and arguments
    mem,        \* the arrays the call works on
    mem0,       \* the arrays as they were when the call was entered
    v,          \* fft: the rows v[0..7]; fftsum: the accumulators v[0..(8>>O)-1]
    li,         \* outer loop index i of the running loop
    lj,         \* inner loop index j of the running loop
    log         \* accesses of the running call: indices read and written

vars == <<log2o, pc, call, mem, mem0, v, li, lj, log>>

---------------------------------------------------------------------------
(* Program constants *)

SWIFFT_P == 257
SWIFFT_N == 64
SWIFFT_M == 32
SWIFFT_INPUT_BLOCK_SIZE == 256
SWIFFT_OUTPUT_BLOCK_SIZE == 128
SWIFFT_BLOCKS_PARALLELIZATION_THRESHOLD == 8

\* sizeof(int16_t), sizeof(Z1vec): a Z1vec is 8 lanes of 16 bits
SizeofInt16 == 2
Z1Lanes == 8

\* The builds: SWIFFT_O = 2^SWIFFT_LOG2_O columns of 8 lanes in a ZOvec
Log2OBuilds == {0, 1, 2, 3}
SWIFFT_O == 2 ^ log2o
ZOLanes == Z1Lanes * SWIFFT_O
SizeofZOvec == SizeofInt16 * ZOLanes

---------------------------------------------------------------------------
(* Modular arithmetic kernel on one 16-bit lane *)

\* the value a signed 16-bit lane holds after an operation whose exact
\* result is x
W16(x) == ((x + 32768) % 65536) - 32768

InInt16(x) == x >= -32768 /\ x <= 32767

\* (A & 255) - (A >> 8): congruent to A modulo 257, in -127..383
SWIFFT_qReduce(a) == W16((a % 256) - (a \div 256))

\* canonical residue in 0..256 of the lane's value
SWIFFT_modP(a) == a % SWIFFT_P

Centered(a) == LET r == a % SWIFFT_P IN IF r > 128 THEN r - SWIFFT_P ELSE r

\* product of the operands after they are brought into -128..128, so that
\* the 16-bit product cannot wrap
SWIFFT_safeMult(a, b) == W16(Centered(a) * Centered(b))

\* multiplication by 2^s modulo 257: ((A & (255 >> s)) << s) - (A >> (8 - s))
SWIFFT_shift(a, s) ==
    W16(((a % (2 ^ (8 - s))) * (2 ^ s)) - (a \div (2 ^ (8 - s))))

---------------------------------------------------------------------------
(* Constant tables of the data module *)

\* powers of omega = 42, a 128th root of unity modulo 257
OmegaPowers ==
   <<
      1, 42, 222, 72, 197, 50, 44, 49, 2, 84, 187, 144, 137, 100, 88, 98,
      4, 168, 117, 31, 17, 200, 176, 196, 8, 79, 234, 62, 34, 143, 95, 135,
      16, 158, 211, 124, 68, 29, 190, 13, 32, 59, 165, 248, 136, 58, 123, 26,
      64, 118, 73, 239, 15, 116, 246, 52, 128, 236, 146, 221, 30, 232, 235, 104,
      256, 215, 35, 185, 60, 207, 213, 208, 255, 173, 70, 113, 120, 157, 169, 159,
      253, 89, 140, 226, 240, 57, 81, 61, 249, 178, 23, 195, 223, 114, 162, 122,
      241, 99, 46, 133, 189, 228, 67, 244, 225, 198, 92, 9, 121, 199, 134, 231,
      193, 139, 184, 18, 242, 141, 11, 205, 129, 21, 111, 36, 227, 25, 22, 153 >>

Omega(k) == OmegaPowers[k + 1]

Bit(x, b) == (x \div (2 ^ b)) % 2

BitRev3(k) == 4 * Bit(k, 0) + 2 * Bit(k, 1) + Bit(k, 2)

\* SWIFFT_INT16(u, t): the table index of sign byte u and input byte t
SWIFFT_INT16(u, t) == u * 256 + t

\* SWIFFT_fftTable[idx], lane l: the sum over the bits b of the input byte
\* of omega^(8 b (2l+1)), negated where bit b of the sign byte is set
TableTerm == [b \in 0..7 |-> [l \in 0..7 |-> Omega((8 * b * (2 * l + 1)) % 128)]]

ByteBits == [t \in 0..255 |-> [b \in 0..7 |-> Bit(t, b)]]

RECURSIVE FftTableSum(_, _, _, _)
FftTableSum(t, u, l, b) ==
    IF b = 8 THEN 0
    ELSE FftTableSum(t, u, l, b + 1)
         + ByteBits[t][b] * (1 - 2 * ByteBits[u][b]) * TableTerm[b][l]

SWIFFT_fftTable(idx, l) == Centered(FftTableSum(idx % 256, idx \div 256, l, 0))

\* SWIFFT_multipliers: row k, lane l holds omega^((2l+1) bitrev3(k))
MultiplierRows ==
    [k \in 0..7 |-> [l \in 0..7 |-> Centered(Omega(((2 * l + 1) * BitRev3(k)) % 128))]]

SWIFFT_multipliers(k, l) == MultiplierRows[k][l]

\* SWIFFT_PI_key: SWIFFT_N * SWIFFT_M elements in 0..256
SWIFFT_PI_key ==
    [n \in 0..(SWIFFT_N * SWIFFT_M - 1) |-> (n * n * 31 + n * 7 + 3) % SWIFFT_P]

\* SWIFFT_sign0: the all-zero sign block
SWIFFT_sign0 == [n \in 0..(SWIFFT_INPUT_BLOCK_SIZE - 1) |-> 0]

---------------------------------------------------------------------------
(* Lane vectors: a ZOvec is a function on the lanes 0..ZOLanes-1; lane
   8 j + l is lane l of column j of the vector *)

Lanes == 0..(ZOLanes - 1)

\* TRUE, once the values of the function f are computed: comparing a
\* function evaluates it on its whole domain, and its values are then not
\* computed again at each use
Ready(f) == f = f

Evaluated(f) == IF Ready(f) THEN f ELSE f

ZOCONST(c) == [x \in Lanes |-> c]

VAdd(a, b) == [x \in Lanes |-> W16(a[x] + b[x])]
VSub(a, b) == [x \in Lanes |-> W16(a[x] - b[x])]
VMul(a, b) == [x \in Lanes |-> W16(a[x] * b[x])]
VqReduce(a) == [x \in Lanes |-> SWIFFT_qReduce(a[x])]
VmodP(a) == [x \in Lanes |-> SWIFFT_modP(a[x])]
Vshift(a, s) == [x \in Lanes |-> SWIFFT_shift(a[x], s)]
VsafeMult(a, b) == [x \in Lanes |-> SWIFFT_safeMult(a[x], b[x])]

\* the ZOvec at element offset off of array arr
ZOLoad(arr, off) == [x \in Lanes |-> arr[off + x]]

\* arr with the ZOvec z stored at element offset off
ZOStore(arr, off, z) ==
    [e \in (DOMAIN arr) \cup {off + x : x \in Lanes} |->
        IF e >= off /\ e < off + ZOLanes THEN z[e - off] ELSE arr[e]]

\* SWIFFT_AddSub(A, B): A, B := A + B, A - B on rows x and y
SWIFFT_AddSub(vv, x, y) ==
    [vv EXCEPT ![x] = VAdd(vv[x], vv[y]), ![y] = VSub(vv[x], vv[y])]

---------------------------------------------------------------------------
(* FFT phase: SWIFFT_fft_ *)

\* the iterations of the outer loop, m >> SWIFFT_LOG2_O
FftOuter(m) == m \div SWIFFT_O

\* the rows before the first load: never read before every column is loaded
RowsInit == [k \in 0..7 |-> ZOCONST(0)]

\* byte of input, and of sign, that row k of column j reads in outer
\* iteration i: t[k], t advanced by 8 per column
FftLoadIndex(i, j, k) == 8 * (i * SWIFFT_O + j) + k

\* bytes read by the load of column j of outer iteration i
FftLoadReads(i, j) == {FftLoadIndex(i, j, k) : k \in 0..7}

\* lines 38-44, one column j: rows k of column j from the tables
FftLoadCol(vv, input, tOff, sign, uOff, i, j) ==
    [k \in 0..7 |-> [x \in Lanes |->
        IF x \div Z1Lanes # j THEN vv[k][x]
        ELSE LET l == x % Z1Lanes
                 tab == SWIFFT_fftTable(
                            SWIFFT_INT16(sign[uOff + FftLoadIndex(i, j, k)],
                                         input[tOff + FftLoadIndex(i, j, k)]), l)
             IN  IF k = 0 THEN tab
                 ELSE W16(tab * SWIFFT_multipliers(k, l))]]

RECURSIVE FftLoadFrom(_, _, _, _, _, _, _)
FftLoadFrom(vv, input, tOff, sign, uOff, i, j) ==
    IF j >= SWIFFT_O THEN vv
    ELSE FftLoadFrom(FftLoadCol(vv, input, tOff, sign, uOff, i, j),
                     input, tOff, sign, uOff, i, j + 1)

\* lines 46-49
FftStage1(vv) ==
    SWIFFT_AddSub(SWIFFT_AddSub(SWIFFT_AddSub(SWIFFT_AddSub(vv, 0, 1), 2, 3), 4, 5), 6, 7)

\* lines 51-54
FftRotate1(vv) ==
    [vv EXCEPT ![2] = VqReduce(vv[2]), ![3] = Vshift(vv[3], 4),
               ![6] = VqReduce(vv[6]), ![7] = Vshift(vv[7], 4)]

\* lines 56-59
FftStage2(vv) ==
    SWIFFT_AddSub(SWIFFT_AddSub(SWIFFT_AddSub(SWIFFT_AddSub(vv, 0, 2), 1, 3), 4, 6), 5, 7)

\* the second rotation with the twiddles of rows 5 and 6 exchanged
FftRotate2Exchanged(vv) ==
    [vv EXCEPT ![4] = VqReduce(vv[4]), ![5] = Vshift(vv[5], 4),
               ![6] = Vshift(vv[6], 2), ![7] = Vshift(vv[7], 6)]

\* lines 61-64
FftRotate2(vv) ==
    [vv EXCEPT ![4] = VqReduce(vv[4]), ![5] = Vshift(vv[5], 2),
               ![6] = Vshift(vv[6], 4), ![7] = Vshift(vv[7], 6)]

\* lines 66-69
FftStage3(vv) ==
    SWIFFT_AddSub(SWIFFT_AddSub(SWIFFT_AddSub(SWIFFT_AddSub(vv, 0, 4), 1, 5), 2, 6), 3, 7)

\* lines 71-73
FftFinalReduce(vv) == [k \in 0..7 |-> VqReduce(vv[k])]

\* lines 46-73
FftButterflies(vv) ==
    LET s1 == Evaluated(FftRotate1(Evaluated(FftStage1(vv))))
        s2 == Evaluated(FftRotate2(Evaluated(FftStage2(s1))))
    IN  FftFinalReduce(Evaluated(FftStage3(s2)))

\* the store of column j of outer iteration i forgetting that an outer
\* iteration stores SWIFFT_O columns
StoreBaseOneColumn(outOff, i, j) == outOff + Z1Lanes * 8 * (i + j)

\* first fftout element of the store of column j of outer iteration i:
\* out, advanced by 8 Z1vecs per column
FftStoreBase(outOff, i, j) == outOff + Z1Lanes * 8 * (i * SWIFFT_O + j)

\* fftout elements written by the store of column j of outer iteration i:
\* lane l of out[k], k < 8
FftStoreWrites(outOff, i, j) ==
    {FftStoreBase(outOff, i, j) + Z1Lanes * k + l : k \in 0..7, l \in 0..7}

\* lines 75-79, one column j
FftStoreCol(fftout, outOff, vv, i, j) ==
    LET base == FftStoreBase(outOff, i, j)
    IN  [e \in FftStoreWrites(outOff, i, j) |->
            vv[(e - base) \div Z1Lanes][Z1Lanes * j + ((e - base) % Z1Lanes)]]
        @@ fftout

RECURSIVE FftStoreFrom(_, _, _, _, _)
FftStoreFrom(fftout, outOff, vv, i, j) ==
    IF j >= SWIFFT_O THEN fftout
    ELSE FftStoreFrom(FftStoreCol(fftout, outOff, vv, i, j), outOff, vv, i, j + 1)

\* one iteration i of the outer loop, lines 37-80
FftIteration(input, tOff, sign, uOff, fftout, outOff, i) ==
    LET vv == Evaluated(FftButterflies(
                  Evaluated(FftLoadFrom(RowsInit, input, tOff, sign, uOff, i, 0))))
    IN  Evaluated(FftStoreFrom(fftout, outOff, vv, i, 0))

RECURSIVE FftFrom(_, _, _, _, _, _, _, _)
FftFrom(input, tOff, sign, uOff, m, fftout, outOff, i) ==
    IF i >= FftOuter(m) THEN fftout
    ELSE IF Ready(fftout)
         THEN FftFrom(input, tOff, sign, uOff, m,
                      FftIteration(input, tOff, sign, uOff, fftout, outOff, i),
                      outOff, i + 1)
         ELSE fftout

\* SWIFFT_fft_(input + tOff, sign + uOff, m, fftout + outOff): fftout after it
SWIFFT_fft_(input, tOff, sign, uOff, m, fftout, outOff) ==
    FftFrom(input, tOff, sign, uOff, m, fftout, outOff, 0)

---------------------------------------------------------------------------
(* FFT-sum phase: SWIFFT_fftsum_ *)

\* 8 >> SWIFFT_LOG2_O: the ZOvecs of one hash block, and of one group of
\* 64 FFT-output elements
SumVecs == 8 \div SWIFFT_O

\* ZOvec v[8 >> SWIFFT_LOG2_O] = {0}
AccInit == [j \in 0..(SumVecs - 1) |-> ZOCONST(0)]

\* element of fftout and of the key that lane x of vector j reads in
\* iteration i
FftsumIndex(i, j, x) == (i * SumVecs + j) * ZOLanes + x

\* the term without the reduction of the product
FftsumTermUnreduced(f, k) == SWIFFT_safeMult(f, k)

\* line 95: the term added to the accumulator lane
FftsumTerm(f, k) == SWIFFT_qReduce(SWIFFT_safeMult(f, k))

\* elements of fftout, and of the key, read in iteration i
FftsumReads(i) == {FftsumIndex(i, j, x) : j \in 0..(SumVecs - 1), x \in Lanes}

\* lines 93-96: iteration i of the accumulation
FftsumAccumulate(acc, key, kOff, fftout, fOff, i) ==
    [j \in 0..(SumVecs - 1) |-> [x \in Lanes |->
        W16(acc[j][x] + FftsumTerm(fftout[fOff + FftsumIndex(i, j, x)],
                                   key[kOff + FftsumIndex(i, j, x)]))]]

\* lines 98-100
FftsumStore(out, oOff, acc) ==
    [e \in {oOff + n : n \in 0..(SumVecs * ZOLanes - 1)} |->
        SWIFFT_modP(acc[(e - oOff) \div ZOLanes][(e - oOff) % ZOLanes])]
    @@ out

RECURSIVE FftsumFrom(_, _, _, _, _, _, _)
FftsumFrom(acc, key, kOff, fftout, fOff, m, i) ==
    IF i >= m THEN acc
    ELSE IF Ready(acc)
         THEN FftsumFrom(FftsumAccumulate(acc, key, kOff, fftout, fOff, i),
                         key, kOff, fftout, fOff, m, i + 1)
         ELSE acc

\* SWIFFT_fftsum_(key + kOff, fftout + fOff, m, out + oOff): out after it
SWIFFT_fftsum_(key, kOff, fftout, fOff, m, out, oOff) ==
    FftsumStore(out, oOff, FftsumFrom(AccInit, key, kOff, fftout, fOff, m, 0))

---------------------------------------------------------------------------
(* Compression facade *)

\* an array nothing was written to yet
Unwritten == [e \in {} |-> 0]

\* element offset of a byte offset into a hash array
ElemOfByte(b) == b \div SizeofInt16

\* elements of one hash block
HashElems == ElemOfByte(SWIFFT_OUTPUT_BLOCK_SIZE)

\* SWIFFT_compute(input + tOff, sign + uOff, output + oOff), oOff in elements
SWIFFT_compute(input, tOff, sign, uOff, output, oOff) ==
    LET fftout == SWIFFT_fft_(input, tOff, sign, uOff, SWIFFT_M, Unwritten, 0)
    IN  SWIFFT_fftsum_(SWIFFT_PI_key, 0, fftout, 0, SWIFFT_M, output, oOff)

SWIFFT_Compute_(input, tOff, output, oOff) ==
    SWIFFT_compute(input, tOff, SWIFFT_sign0, 0, output, oOff)

SWIFFT_ComputeSigned_(input, tOff, sign, uOff, output, oOff) ==
    SWIFFT_compute(input, tOff, sign, uOff, output, oOff)

---------------------------------------------------------------------------
(* Element-wise hash algebra.  Each operation runs over the
   size = SWIFFT_OUTPUT_BLOCK_SIZE / sizeof(ZOvec) lane vectors of the block
   at element offset oOff of output. *)

HashVecs == SWIFFT_OUTPUT_BLOCK_SIZE \div SizeofZOvec

\* the elements the loop over the block visits
HashSpan(oOff) == {oOff + n : n \in 0..(HashVecs * ZOLanes - 1)}

InHashSpan(e, oOff) == e >= oOff /\ e < oOff + HashVecs * ZOLanes

SWIFFT_ConstSet_(output, oOff, c) ==
    [e \in (DOMAIN output) \cup HashSpan(oOff) |->
        IF InHashSpan(e, oOff) THEN SWIFFT_modP(c) ELSE output[e]]

SWIFFT_ConstAdd_(output, oOff, c) ==
    [e \in DOMAIN output |->
        IF InHashSpan(e, oOff) THEN SWIFFT_modP(W16(output[e] + c)) ELSE output[e]]

\* ConstSub that stores the difference without reducing it
ConstSubUnreduced(output, oOff, c) ==
    [e \in DOMAIN output |->
        IF InHashSpan(e, oOff) THEN W16(output[e] - c) ELSE output[e]]

SWIFFT_ConstSub_(output, oOff, c) ==
    [e \in DOMAIN output |->
        IF InHashSpan(e, oOff) THEN SWIFFT_modP(W16(output[e] - c)) ELSE output[e]]

SWIFFT_ConstMul_(output, oOff, c) ==
    [e \in DOMAIN output |->
        IF InHashSpan(e, oOff) THEN SWIFFT_modP(W16(output[e] * c)) ELSE output[e]]

\* memcpy of SWIFFT_OUTPUT_BLOCK_SIZE bytes
SWIFFT_Set_(output, oOff, operand, pOff) ==
    [e \in (DOMAIN output) \cup {oOff + n : n \in 0..(HashElems - 1)} |->
        IF e >= oOff /\ e < oOff + HashElems THEN operand[pOff + (e - oOff)]
        ELSE output[e]]

SWIFFT_Add_(output, oOff, operand, pOff) ==
    [e \in DOMAIN output |->
        IF InHashSpan(e, oOff)
        THEN SWIFFT_modP(W16(output[e] + operand[pOff + (e - oOff)]))
        ELSE output[e]]

\* Sub with its operands exchanged
SubExchanged(output, oOff, operand, pOff) ==
    [e \in DOMAIN output |->
        IF InHashSpan(e, oOff)
        THEN SWIFFT_modP(W16(operand[pOff + (e - oOff)] - output[e]))
        ELSE output[e]]

SWIFFT_Sub_(output, oOff, operand, pOff) ==
    [e \in DOMAIN output |->
        IF InHashSpan(e, oOff)
        THEN SWIFFT_modP(W16(output[e] - operand[pOff + (e - oOff)]))
        ELSE output[e]]

SWIFFT_Mul_(output, oOff, operand, pOff) ==
    [e \in DOMAIN output |->
        IF InHashSpan(e, oOff)
        THEN SWIFFT_modP(W16(output[e] * operand[pOff + (e - oOff)]))
        ELSE output[e]]

---------------------------------------------------------------------------
(* Sample data *)

\* input and sign blocks: byte n of sample a
SampleBytes(a) == [n \in 0..(SWIFFT_INPUT_BLOCK_SIZE - 1) |-> (a * n + a) % 256]

\* the values not used by a specification
Idle == "unused"

---------------------------------------------------------------------------
(* SpecAlg: the element-wise hash algebra on the hash blocks "a" and "b".

   mem   the two blocks
   call  the last operations, at most two, latest last
   mem0  the blocks as they were before each operation of call
   li    the number of operations done *)

\* operations of one run on written blocks
MaxOps == 2

AlgConsts == {-32768, 300, 32767}

AlgBlocks == {"a", "b"}

AlgInit ==
    /\ log2o \in Log2OBuilds
    /\ pc = "alg"
    /\ call = << >>
    /\ mem0 = << >>
    /\ mem = [blk \in AlgBlocks |-> Unwritten]
    /\ li = 0
    /\ v = Idle /\ lj = Idle /\ log = Idle

AlgWritten(blk) == DOMAIN mem[blk] = 0..(HashElems - 1)

\* a block not written yet is written by ConstSet, Compute or ComputeSigned
AlgWrite(dst, blk) ==
    /\ pc = "alg"
    /\ ~AlgWritten(dst)
    /\ mem' = [mem EXCEPT ![dst] = blk]
    /\ UNCHANGED <<log2o, pc, call, mem0, v, li, lj, log>>

AlgFirstConstSet == \E dst \in AlgBlocks, c \in {-1, 300} :
    AlgWrite(dst, SWIFFT_ConstSet_(mem[dst], 0, c))

AlgFirstCompute == \E dst \in AlgBlocks :
    AlgWrite(dst, SWIFFT_Compute_(SampleBytes(1), 0, mem[dst], 0))

AlgFirstComputeSigned == \E dst \in AlgBlocks :
    AlgWrite(dst, SWIFFT_ComputeSigned_(SampleBytes(3), 0, SampleBytes(5), 0, mem[dst], 0))

Last2(seq) == IF Len(seq) <= 2 THEN seq ELSE SubSeq(seq, Len(seq) - 1, Len(seq))

\* the operation o leaves block "a" as blk
AlgDone(o, blk) ==
    /\ pc = "alg"
    /\ \A b \in AlgBlocks : AlgWritten(b)
    /\ li < MaxOps
    /\ li' = li + 1
    /\ mem' = [mem EXCEPT !["a"] = blk]
    /\ call' = Last2(Append(call, o))
    /\ mem0' = Last2(Append(mem0, mem))
    /\ UNCHANGED <<log2o, pc, v, lj, log>>

AlgOp(name, src, c) == [op |-> name, src |-> src, c |-> c]

AlgSet == \E src \in {"b"} :
    AlgDone(AlgOp("Set", src, 0), SWIFFT_Set_(mem["a"], 0, mem[src], 0))

AlgAdd == \E src \in {"a", "b"} :
    AlgDone(AlgOp("Add", src, 0), SWIFFT_Add_(mem["a"], 0, mem[src], 0))

AlgSub == \E src \in {"a", "b"} :
    AlgDone(AlgOp("Sub", src, 0), SWIFFT_Sub_(mem["a"], 0, mem[src], 0))

AlgMul == \E src \in {"a", "b"} :
    AlgDone(AlgOp("Mul", src, 0), SWIFFT_Mul_(mem["a"], 0, mem[src], 0))

AlgConstSet == \E c \in AlgConsts :
    AlgDone(AlgOp("ConstSet", "", c), SWIFFT_ConstSet_(mem["a"], 0, c))

AlgConstAdd == \E c \in AlgConsts :
    AlgDone(AlgOp("ConstAdd", "", c), SWIFFT_ConstAdd_(mem["a"], 0, c))

AlgConstSub == \E c \in AlgConsts :
    AlgDone(AlgOp("ConstSub", "", c), SWIFFT_ConstSub_(mem["a"], 0, c))

AlgConstMul == \E c \in AlgConsts :
    AlgDone(AlgOp("ConstMul", "", c), SWIFFT_ConstMul_(mem["a"], 0, c))

AlgNext ==
    \/ AlgFirstConstSet \/ AlgFirstCompute \/ AlgFirstComputeSigned
    \/ AlgSet \/ AlgAdd \/ AlgSub \/ AlgMul
    \/ AlgConstSet \/ AlgConstAdd \/ AlgConstSub \/ AlgConstMul

SpecAlg == AlgInit /\ [][AlgNext]_vars

\* the last operation, the block "a" before it and the operand block before it
AlgLast == call[Len(call)]
AlgBefore == mem0[Len(mem0)]

Canonical(x) == x >= 0 /\ x < SWIFFT_P

\* C3: after any sequence of Set, Add, Sub, Mul, ConstSet, ConstAdd,
\* ConstSub, ConstMul on blocks written by ConstSet, Compute or
\* ComputeSigned, every element of every hash block is in 0..256, the
\* residue system of modP.
C3_CanonicalRange ==
    pc = "alg" => \A blk \in AlgBlocks : \A e \in DOMAIN mem[blk] : Canonical(mem[blk][e])

\* a block written by Compute went through a Sub and then a ConstMul by 32767
C3_Witness ==
    /\ pc = "alg" /\ Len(call) = 2
    /\ call[1].op = "Sub" /\ call[2] = AlgOp("ConstMul", "", 32767)
    /\ mem0[1]["a"][0] # mem0[1]["a"][1]

\* C4: ConstAdd(h, c) leaves the block Add(h, k) leaves, k written by
\* ConstSet(k, c); likewise ConstSub and Sub, ConstMul and Mul.
C4_ConstAgreesWithBlock ==
    (pc = "alg" /\ call # << >>) =>
        LET h == AlgBefore["a"]
            k == SWIFFT_ConstSet_(Unwritten, 0, AlgLast.c)
        IN  /\ AlgLast.op = "ConstAdd" => mem["a"] = SWIFFT_Add_(h, 0, k, 0)
            /\ AlgLast.op = "ConstSub" => mem["a"] = SWIFFT_Sub_(h, 0, k, 0)
            /\ AlgLast.op = "ConstMul" => mem["a"] = SWIFFT_Mul_(h, 0, k, 0)

\* C5: Mul(a, b) leaves in each element the residue in 0..256 of the
\* integer product of the two elements.
C5_MulIsRingProduct ==
    (pc = "alg" /\ call # << >> /\ AlgLast.op = "Mul") =>
        \A e \in 0..(HashElems - 1) :
            mem["a"][e] = (AlgBefore["a"][e] * AlgBefore[AlgLast.src][e]) % SWIFFT_P

\* C6: Add(a, b) followed by Sub(a, b) leaves a as it was before the two
\* calls; Sub(h, h2) with h2 an equal copy of h leaves the block that
\* ConstSet(., 0) writes.
C6_AddSubRoundTrip ==
    /\ (pc = "alg" /\ Len(call) = 2
            /\ call[1] = AlgOp("Add", "b", 0) /\ call[2] = AlgOp("Sub", "b", 0))
        => mem["a"] = mem0[1]["a"]
    /\ (pc = "alg" /\ call # << >> /\ AlgLast = AlgOp("Sub", "b", 0)
            /\ AlgBefore["a"] = AlgBefore["b"])
        => mem["a"] = SWIFFT_ConstSet_(Unwritten, 0, 0)

\* the round trip was made on a block written by Compute, with another
\* block as operand
C6_Witness ==
    /\ pc = "alg" /\ Len(call) = 2
    /\ call[1] = AlgOp("Add", "b", 0) /\ call[2] = AlgOp("Sub", "b", 0)
    /\ mem0[1]["a"][0] # mem0[1]["a"][1]
    /\ mem0[1]["a"] # mem0[1]["b"]

---------------------------------------------------------------------------
(* SpecCore: calls of SWIFFT_fft_, SWIFFT_fftsum_ and SWIFFT_compute, one
   loop iteration at a time.

   call  the function called and its m
   mem   input, sign, key, fftout (the scratch of compute) and out
   v     the rows of fft, then the accumulators of fftsum
   li    the outer loop index i
   lj    the column j of the load loop and of the store loop
   log   the indices read and written by the call, relative to the pointers
         it was given; wrFft counts the writes of each fftout element *)

\* largest m of a direct call of fft or fftsum
MaxDirectM == 16

DirectMs == {m \in 1..MaxDirectM : m % SWIFFT_O = 0}

ConstArray(n, c) == [e \in 0..(n - 1) |-> c]

\* FFT outputs as fft's final qReduce leaves them, in -127..383
FftoutSamples ==
    {ConstArray(SWIFFT_N * SWIFFT_M, 383),
     ConstArray(SWIFFT_N * SWIFFT_M, 127),
     [e \in 0..(SWIFFT_N * SWIFFT_M - 1) |-> ((e * e * 7 + e * 3) % 511) - 127]}

KeySamples ==
    {ConstArray(SWIFFT_N * SWIFFT_M, -127),
     ConstArray(SWIFFT_N * SWIFFT_M, 32767),
     SWIFFT_PI_key}

CoreLogInit ==
    [rdInput |-> {}, rdSign |-> {}, wrFft |-> Unwritten,
     rdFft |-> {}, rdKey |-> {}, wrOut |-> {}]

CoreInit ==
    /\ log2o \in Log2OBuilds
    /\ pc = "idle"
    /\ call = Idle /\ mem = Idle /\ mem0 = Idle /\ v = Idle
    /\ li = 0 /\ lj = 0
    /\ log = Idle

\* entry of a call
CoreEnter(c, m0, start, rows) ==
    /\ pc = "idle"
    /\ pc' = start
    /\ call' = c
    /\ mem' = m0
    /\ mem0' = m0
    /\ v' = rows
    /\ li' = 0 /\ lj' = 0
    /\ log' = CoreLogInit
    /\ UNCHANGED log2o

CoreCallFft == \E m \in DirectMs, a \in {1, 3} :
    CoreEnter([op |-> "fft", m |-> m],
              [input |-> SampleBytes(a), sign |-> SampleBytes(a + 4), key |-> Idle,
               fftout |-> Unwritten, out |-> Unwritten],
              "fft_load", RowsInit)

CoreCallFftsum == \E m \in DirectMs \cup {SWIFFT_M}, f \in FftoutSamples, k \in KeySamples :
    CoreEnter([op |-> "fftsum", m |-> m],
              [input |-> Idle, sign |-> Idle, key |-> k, fftout |-> f, out |-> Unwritten],
              "sum_acc", AccInit)

\* SWIFFT_Compute_ (the sign is SWIFFT_sign0) and SWIFFT_ComputeSigned_
CoreCallCompute == \E a \in {1, 3}, sg \in {SWIFFT_sign0, SampleBytes(5)} :
    CoreEnter([op |-> "compute", m |-> SWIFFT_M],
              [input |-> SampleBytes(a), sign |-> sg, key |-> SWIFFT_PI_key,
               fftout |-> Unwritten, out |-> Unwritten],
              "fft_load", RowsInit)

\* lines 38-44: the load of column lj
CoreFftLoad ==
    /\ pc = "fft_load"
    /\ li < FftOuter(call.m)
    /\ v' = FftLoadCol(v, mem.input, 0, mem.sign, 0, li, lj)
    /\ log' = [log EXCEPT !.rdInput = @ \cup FftLoadReads(li, lj),
                          !.rdSign = @ \cup FftLoadReads(li, lj)]
    /\ IF lj + 1 < SWIFFT_O
       THEN lj' = lj + 1 /\ pc' = pc
       ELSE lj' = 0 /\ pc' = "fft_bfly"
    /\ UNCHANGED <<log2o, call, mem, mem0, li>>

\* lines 46-73
CoreFftButterfly ==
    /\ pc = "fft_bfly"
    /\ v' = FftButterflies(v)
    /\ pc' = "fft_store"
    /\ UNCHANGED <<log2o, call, mem, mem0, li, lj, log>>

Counted(count, written) ==
    [e \in (DOMAIN count) \cup written |->
        (IF e \in DOMAIN count THEN count[e] ELSE 0) + (IF e \in written THEN 1 ELSE 0)]

\* lines 75-79: the store of column lj
CoreFftStore ==
    /\ pc = "fft_store"
    /\ mem' = [mem EXCEPT !.fftout = FftStoreCol(mem.fftout, 0, v, li, lj)]
    /\ log' = [log EXCEPT !.wrFft = Counted(@, FftStoreWrites(0, li, lj))]
    /\ IF lj + 1 < SWIFFT_O
       THEN lj' = lj + 1 /\ li' = li /\ pc' = pc
       ELSE lj' = 0 /\ li' = li + 1 /\ pc' = "fft_load"
    /\ UNCHANGED <<log2o, call, mem0, v>>

\* line 37, the loop is over: fft returns, and compute calls fftsum
CoreFftReturn ==
    /\ pc = "fft_load"
    /\ li >= FftOuter(call.m)
    /\ IF call.op = "compute"
       THEN pc' = "sum_acc" /\ v' = AccInit /\ li' = 0
       ELSE pc' = "done" /\ v' = v /\ li' = li
    /\ UNCHANGED <<log2o, call, mem, mem0, lj, log>>

\* lines 92-97: iteration li of the accumulation
CoreFftsumAccumulate ==
    /\ pc = "sum_acc"
    /\ li < call.m
    /\ v' = FftsumAccumulate(v, mem.key, 0, mem.fftout, 0, li)
    /\ log' = [log EXCEPT !.rdFft = @ \cup FftsumReads(li),
                          !.rdKey = @ \cup FftsumReads(li)]
    /\ li' = li + 1
    /\ UNCHANGED <<log2o, pc, call, mem, mem0, lj>>

\* lines 98-100
CoreFftsumStore ==
    /\ pc = "sum_acc"
    /\ li >= call.m
    /\ mem' = [mem EXCEPT !.out = FftsumStore(mem.out, 0, v)]
    /\ log' = [log EXCEPT !.wrOut = {n : n \in 0..(SumVecs * ZOLanes - 1)}]
    /\ pc' = "done"
    /\ UNCHANGED <<log2o, call, mem0, v, li, lj>>

CoreReturn ==
    /\ pc = "done"
    /\ pc' = "idle"
    /\ call' = Idle /\ mem' = Idle /\ mem0' = Idle /\ v' = Idle
    /\ li' = 0 /\ lj' = 0
    /\ log' = Idle
    /\ UNCHANGED log2o

CoreNext ==
    \/ CoreCallFft \/ CoreCallFftsum \/ CoreCallCompute
    \/ CoreFftLoad \/ CoreFftButterfly \/ CoreFftStore \/ CoreFftReturn
    \/ CoreFftsumAccumulate \/ CoreFftsumStore
    \/ CoreReturn

SpecCore == CoreInit /\ [][CoreNext]_vars

\* the accumulator lane of output element e
AccLane(e) == v[e \div ZOLanes][e % ZOLanes]

\* the exact sum of the terms added for element e in iterations 0..n-1
RECURSIVE TermSum(_, _)
TermSum(e, n) ==
    IF n = 0 THEN 0
    ELSE TermSum(e, n - 1)
         + FftsumTerm(mem.fftout[SWIFFT_N * (n - 1) + e], mem.key[SWIFFT_N * (n - 1) + e])

\* the exact sum of fftout[64 i + e] * key[64 i + e] over i = 0..n-1
RECURSIVE ProductSum(_, _)
ProductSum(e, n) ==
    IF n = 0 THEN 0
    ELSE ProductSum(e, n - 1)
         + mem.fftout[SWIFFT_N * (n - 1) + e] * mem.key[SWIFFT_N * (n - 1) + e]

\* the values fft's final qReduce can leave in an element
QReduceRange == -127..383

\* every term added to a lane is congruent to the product it stands for and
\* small enough that SWIFFT_M of them cannot leave the 16-bit range
TermsFitLane ==
    \A f \in QReduceRange : \A k \in 0..(SWIFFT_P - 1) :
        /\ SWIFFT_modP(FftsumTerm(f, k)) = SWIFFT_modP(f * k)
        /\ InInt16(SWIFFT_M * FftsumTerm(f, k))

\* C8: for m = 32 and FFT outputs in the range of qReduce, after each of
\* the m additions every accumulator lane holds the exact sum of its terms,
\* which is within the signed 16-bit range, and each output element is the
\* residue in 0..256 of the sum of fftout[64 i + e] * key[64 i + e].
C8_FftsumLinearCombination ==
    (pc \in {"sum_acc", "done"} /\ call.op \in {"fftsum", "compute"} /\ call.m = SWIFFT_M) =>
        /\ pc = "sum_acc" =>
                \A e \in 0..(SWIFFT_N - 1) :
                    InInt16(TermSum(e, li)) /\ AccLane(e) = TermSum(e, li)
        /\ pc = "done" =>
                \A e \in 0..(SWIFFT_N - 1) :
                    mem.out[e] = ProductSum(e, call.m) % SWIFFT_P
        /\ (pc = "done" /\ call.op = "fftsum" /\ log2o = 0) => TermsFitLane

\* fftsum with m = 32 returned, on FFT outputs 127 and key elements -127,
\* whose terms are the largest
C8_Witness ==
    /\ pc = "done" /\ call.op = "fftsum" /\ call.m = SWIFFT_M
    /\ mem.fftout[0] = 127 /\ mem.key[0] = -127
    /\ mem.out[0] = ((-127) * 127 * 32) % SWIFFT_P

\* C10: fft with m a multiple of SWIFFT_O reads exactly bytes 0..8m-1 of
\* input and of sign and writes each of the elements 0..64m-1 of fftout
\* exactly once and no other; fftsum reads exactly elements 0..64m-1 of
\* fftout and of the key; in compute every scratch element fftsum reads
\* was written by fft, and every access is inside the 64*32 scratch.
C10_FftScratchExtent ==
    (pc # "idle") =>
        /\ \A e \in DOMAIN log.wrFft : log.wrFft[e] = 1
        /\ (pc = "done" /\ call.op = "fft") =>
                /\ log.rdInput = 0..(8 * call.m - 1)
                /\ log.rdSign = 0..(8 * call.m - 1)
                /\ DOMAIN log.wrFft = 0..(SWIFFT_N * call.m - 1)
        /\ (pc = "done" /\ call.op = "fftsum") =>
                /\ log.rdFft = 0..(SWIFFT_N * call.m - 1)
                /\ log.rdKey = 0..(SWIFFT_N * call.m - 1)
        /\ (call.op = "compute") =>
                /\ log.rdFft \subseteq DOMAIN log.wrFft
                /\ DOMAIN log.wrFft \subseteq 0..(SWIFFT_N * SWIFFT_M - 1)
                /\ pc = "done" => log.rdFft = 0..(SWIFFT_N * SWIFFT_M - 1)

\* compute returned in the build with two columns per lane vector
C10_Witness ==
    /\ pc = "done" /\ call.op = "compute" /\ log2o = 1
    /\ log.rdFft = DOMAIN log.wrFft
    /\ Cardinality(log.rdFft) = SWIFFT_N * SWIFFT_M

---------------------------------------------------------------------------
(* Multi-block variants.  A memory is a record of the arrays a call is
   given: input and sign (bytes), output and operand (hash arrays, in
   elements), consts (the int16 operand array of the constant variants),
   fftout and key.  The fftout given to fftMultiple holds nothing yet: an
   element is in its domain once it is written.  The arrays are distinct objects, so they do not overlap
   each other.  Each SWIFFT_...Multiple_ below is the body of the function's
   loop: the memory after iteration i. *)

\* input + i * SWIFFT_INPUT_BLOCK_SIZE, and sign + i * SWIFFT_INPUT_BLOCK_SIZE
InputBlock(i) == i * SWIFFT_INPUT_BLOCK_SIZE

\* every iteration given the block of iteration 0
HashBlockFirst(i) == 0

\* output + i * SWIFFT_OUTPUT_BLOCK_SIZE, a byte offset, in elements
HashBlock(i) == ElemOfByte(i * SWIFFT_OUTPUT_BLOCK_SIZE)

\* every iteration given the operand block of iteration 0
OperandBlockFirst(i) == 0

\* operand + i * SWIFFT_OUTPUT_BLOCK_SIZE, a byte offset, in elements
OperandBlock(i) == ElemOfByte(i * SWIFFT_OUTPUT_BLOCK_SIZE)

\* fftout + i * SWIFFT_N * SWIFFT_M
FftoutBlock(i) == i * SWIFFT_N * SWIFFT_M

\* every iteration given the constant of iteration 0
ConstOperandFirst(operand, i) == operand[0]

\* operand[i] of the constant variants
ConstOperand(operand, i) == operand[i]

SWIFFT_fftMultiple_(M, m, i) ==
    [M EXCEPT !.fftout = SWIFFT_fft_(M.input, InputBlock(i), M.sign, InputBlock(i),
                                     m, @, FftoutBlock(i))]

SWIFFT_fftsumMultiple_(M, m, i) ==
    [M EXCEPT !.output = SWIFFT_fftsum_(M.key, 0, M.fftout, FftoutBlock(i), m, @,
                                        i * (SWIFFT_OUTPUT_BLOCK_SIZE \div SizeofInt16))]

SWIFFT_ConstSetMultiple_(M, i) ==
    [M EXCEPT !.output = SWIFFT_ConstSet_(@, HashBlock(i), ConstOperand(M.consts, i))]

SWIFFT_ConstAddMultiple_(M, i) ==
    [M EXCEPT !.output = SWIFFT_ConstAdd_(@, HashBlock(i), ConstOperand(M.consts, i))]

SWIFFT_ConstSubMultiple_(M, i) ==
    [M EXCEPT !.output = SWIFFT_ConstSub_(@, HashBlock(i), ConstOperand(M.consts, i))]

SWIFFT_ConstMulMultiple_(M, i) ==
    [M EXCEPT !.output = SWIFFT_ConstMul_(@, HashBlock(i), ConstOperand(M.consts, i))]

SWIFFT_SetMultiple_(M, i) ==
    [M EXCEPT !.output = SWIFFT_Set_(@, HashBlock(i), M.operand, OperandBlock(i))]

SWIFFT_AddMultiple_(M, i) ==
    [M EXCEPT !.output = SWIFFT_Add_(@, HashBlock(i), M.operand, OperandBlock(i))]

SWIFFT_SubMultiple_(M, i) ==
    [M EXCEPT !.output = SWIFFT_Sub_(@, HashBlock(i), M.operand, OperandBlock(i))]

SWIFFT_MulMultiple_(M, i) ==
    [M EXCEPT !.output = SWIFFT_Mul_(@, HashBlock(i), M.operand, OperandBlock(i))]

SWIFFT_ComputeMultiple_(M, i) ==
    [M EXCEPT !.output = SWIFFT_compute(M.input, InputBlock(i), SWIFFT_sign0, 0,
                                        @, HashBlock(i))]

SWIFFT_ComputeMultipleSigned_(M, i) ==
    [M EXCEPT !.output = SWIFFT_compute(M.input, InputBlock(i), M.sign, InputBlock(i),
                                        @, HashBlock(i))]

\* iteration i of the loop of the function c.op
LoopBody(c, M, i) ==
    CASE c.op = "fftMultiple" -> SWIFFT_fftMultiple_(M, c.m, i)
      [] c.op = "fftsumMultiple" -> SWIFFT_fftsumMultiple_(M, c.m, i)
      [] c.op = "ConstSetMultiple" -> SWIFFT_ConstSetMultiple_(M, i)
      [] c.op = "ConstAddMultiple" -> SWIFFT_ConstAddMultiple_(M, i)
      [] c.op = "ConstSubMultiple" -> SWIFFT_ConstSubMultiple_(M, i)
      [] c.op = "ConstMulMultiple" -> SWIFFT_ConstMulMultiple_(M, i)
      [] c.op = "SetMultiple" -> SWIFFT_SetMultiple_(M, i)
      [] c.op = "AddMultiple" -> SWIFFT_AddMultiple_(M, i)
      [] c.op = "SubMultiple" -> SWIFFT_SubMultiple_(M, i)
      [] c.op = "MulMultiple" -> SWIFFT_MulMultiple_(M, i)
      [] c.op = "ComputeMultiple" -> SWIFFT_ComputeMultiple_(M, i)
      [] c.op = "ComputeMultipleSigned" -> SWIFFT_ComputeMultipleSigned_(M, i)

\* elements of fftout that fft(.., m, fftout + outOff) writes
FftWrites(outOff, m) ==
    UNION {FftStoreWrites(outOff, i, j) :
               i \in 0..(FftOuter(m) - 1), j \in 0..(SWIFFT_O - 1)}

\* the array the function c.op writes
OutputOf(c, M) == IF c.op = "fftMultiple" THEN M.fftout ELSE M.output

\* elements of that array iteration i writes
LoopWrites(c, i) ==
    CASE c.op = "fftMultiple" -> FftWrites(FftoutBlock(i), c.m)
      [] c.op = "fftsumMultiple" ->
             HashSpan(i * (SWIFFT_OUTPUT_BLOCK_SIZE \div SizeofInt16))
      [] OTHER -> HashSpan(HashBlock(i))

---------------------------------------------------------------------------
(* Arrays of nb blocks *)

ByteBlocks(nb, a) ==
    [n \in 0..(nb * SWIFFT_INPUT_BLOCK_SIZE - 1) |->
        (a * n + a + n \div SWIFFT_INPUT_BLOCK_SIZE) % 256]

\* hash values, canonical
HashBlocks(nb, a) ==
    [e \in 0..(nb * HashElems - 1) |-> (a * e * e + e + a) % SWIFFT_P]

ConstBlocks(nb, a) == [i \in 0..(nb - 1) |-> a + 300 * i]

\* FFT outputs in -127..383
FftoutBlocks(nb) ==
    [e \in 0..(nb * SWIFFT_N * SWIFFT_M - 1) |->
        (((e % 511) * (e % 511) * 7 + e * 3) % 511) - 127]

NoArrays ==
    [input |-> Unwritten, sign |-> Unwritten, output |-> Unwritten,
     operand |-> Unwritten, consts |-> Unwritten, fftout |-> Unwritten,
     key |-> Unwritten]

\* the memories the calls are made on
MemFft(nb) ==
    [NoArrays EXCEPT !.input = ByteBlocks(nb, 3), !.sign = ByteBlocks(nb, 5)]

MemFftsum(nb) ==
    [NoArrays EXCEPT !.key = SWIFFT_PI_key, !.fftout = FftoutBlocks(nb),
                     !.output = HashBlocks(nb, 2)]

MemConst(nb) ==
    [NoArrays EXCEPT !.output = HashBlocks(nb, 2), !.consts = ConstBlocks(nb, 7)]

MemOperand(nb) ==
    [NoArrays EXCEPT !.output = HashBlocks(nb, 2), !.operand = HashBlocks(nb, 5)]

MemCompute(nb) ==
    [NoArrays EXCEPT !.input = ByteBlocks(nb, 3), !.sign = ByteBlocks(nb, 5),
                     !.output = HashBlocks(nb, 2)]

\* arr with every element outside block same replaced by the next value of
\* lo..lo+n-1
OtherBlocks(arr, size, same, lo, n) ==
    [e \in DOMAIN arr |->
        IF e \div size = same THEN arr[e] ELSE lo + ((arr[e] - lo + 1) % n)]

\* a memory that agrees with M on block same of every array, and on the
\* key, and differs from it everywhere else
Differing(M, same) ==
    [input |-> OtherBlocks(M.input, SWIFFT_INPUT_BLOCK_SIZE, same, 0, 256),
     sign |-> OtherBlocks(M.sign, SWIFFT_INPUT_BLOCK_SIZE, same, 0, 256),
     output |-> OtherBlocks(M.output, HashElems, same, 0, SWIFFT_P),
     operand |-> OtherBlocks(M.operand, HashElems, same, 0, SWIFFT_P),
     consts |-> OtherBlocks(M.consts, 1, same, -32768, 65536),
     fftout |-> OtherBlocks(M.fftout, SWIFFT_N * SWIFFT_M, same, -127, 511),
     key |-> M.key]

---------------------------------------------------------------------------
(* SpecBatch: the multi-block functions with nblocks at most the
   parallelization threshold, where the loop runs its iterations in order.
   Each call is made twice, on two memories that agree on one block.

   call  the function called, nblocks, m, and the block the memories agree on
   mem   the two memories
   mem0  the two memories at the call
   li    the loop index i
   log   the elements of the output array written so far *)

\* largest nblocks
MaxBlocks == 2

\* blocks in each array: one more than the call is told of
BatchBlocks == MaxBlocks + 1

BatchMs == {SWIFFT_O, SWIFFT_M}

BatchInit ==
    /\ log2o \in Log2OBuilds
    /\ pc = "idle"
    /\ call = Idle /\ mem = Idle /\ mem0 = Idle /\ v = Idle
    /\ li = 0 /\ lj = 0
    /\ log = Idle

BatchEnter(name, m, M) == \E n \in 0..MaxBlocks, same \in 0..(MaxBlocks - 1) :
    /\ pc = "idle"
    /\ n <= SWIFFT_BLOCKS_PARALLELIZATION_THRESHOLD
    /\ pc' = "loop"
    /\ call' = [op |-> name, nblocks |-> n, m |-> m, same |-> same]
    /\ mem' = <<M, Differing(M, same)>>
    /\ mem0' = mem'
    /\ li' = 0
    /\ log' = {}
    /\ UNCHANGED <<log2o, v, lj>>

BatchFftMultiple == \E m \in BatchMs :
    BatchEnter("fftMultiple", m, MemFft(BatchBlocks))

BatchFftsumMultiple == \E m \in BatchMs :
    BatchEnter("fftsumMultiple", m, MemFftsum(BatchBlocks))

BatchConstSetMultiple == BatchEnter("ConstSetMultiple", 0, MemConst(BatchBlocks))

BatchConstAddMultiple == BatchEnter("ConstAddMultiple", 0, MemConst(BatchBlocks))

BatchConstSubMultiple == BatchEnter("ConstSubMultiple", 0, MemConst(BatchBlocks))

BatchConstMulMultiple == BatchEnter("ConstMulMultiple", 0, MemConst(BatchBlocks))

BatchSetMultiple == BatchEnter("SetMultiple", 0, MemOperand(BatchBlocks))

BatchAddMultiple == BatchEnter("AddMultiple", 0, MemOperand(BatchBlocks))

BatchSubMultiple == BatchEnter("SubMultiple", 0, MemOperand(BatchBlocks))

BatchMulMultiple == BatchEnter("MulMultiple", 0, MemOperand(BatchBlocks))

BatchComputeMultiple ==
    BatchEnter("ComputeMultiple", SWIFFT_M, MemCompute(BatchBlocks))

BatchComputeMultipleSigned ==
    BatchEnter("ComputeMultipleSigned", SWIFFT_M, MemCompute(BatchBlocks))

\* for (i=0; i<nblocks; i++): iteration li, on both memories
BatchIteration ==
    /\ pc = "loop"
    /\ li < call.nblocks
    /\ mem' = [r \in DOMAIN mem |-> LoopBody(call, mem[r], li)]
    /\ log' = log \cup LoopWrites(call, li)
    /\ li' = li + 1
    /\ UNCHANGED <<log2o, pc, call, mem0, v, lj>>

BatchLoopEnd ==
    /\ pc = "loop"
    /\ li >= call.nblocks
    /\ pc' = "done"
    /\ UNCHANGED <<log2o, call, mem, mem0, v, li, lj, log>>

BatchReturn ==
    /\ pc = "done"
    /\ pc' = "idle"
    /\ call' = Idle /\ mem' = Idle /\ mem0' = Idle
    /\ li' = 0
    /\ log' = Idle
    /\ UNCHANGED <<log2o, v, lj>>

BatchNext ==
    \/ BatchFftMultiple \/ BatchFftsumMultiple
    \/ BatchConstSetMultiple \/ BatchConstAddMultiple
    \/ BatchConstSubMultiple \/ BatchConstMulMultiple
    \/ BatchSetMultiple \/ BatchAddMultiple \/ BatchSubMultiple \/ BatchMulMultiple
    \/ BatchComputeMultiple \/ BatchComputeMultipleSigned
    \/ BatchIteration \/ BatchLoopEnd \/ BatchReturn

SpecBatch == BatchInit /\ [][BatchNext]_vars

\* the single-block call on block i of the arrays: a hash array's block at
\* byte offset i*128, an input or sign block at byte offset i*256, the
\* constant operand[i], the FFT outputs of the block at element offset
\* i*64*32
SingleCall(c, M, i) ==
    LET h == ElemOfByte(i * 128)
        b == i * 256
        f == i * 64 * 32
    IN  CASE c.op = "fftMultiple" ->
                 [M EXCEPT !.fftout = SWIFFT_fft_(M.input, b, M.sign, b, c.m, @, f)]
          [] c.op = "fftsumMultiple" ->
                 [M EXCEPT !.output = SWIFFT_fftsum_(M.key, 0, M.fftout, f, c.m, @, h)]
          [] c.op = "ConstSetMultiple" ->
                 [M EXCEPT !.output = SWIFFT_ConstSet_(@, h, M.consts[i])]
          [] c.op = "ConstAddMultiple" ->
                 [M EXCEPT !.output = SWIFFT_ConstAdd_(@, h, M.consts[i])]
          [] c.op = "ConstSubMultiple" ->
                 [M EXCEPT !.output = SWIFFT_ConstSub_(@, h, M.consts[i])]
          [] c.op = "ConstMulMultiple" ->
                 [M EXCEPT !.output = SWIFFT_ConstMul_(@, h, M.consts[i])]
          [] c.op = "SetMultiple" ->
                 [M EXCEPT !.output = SWIFFT_Set_(@, h, M.operand, h)]
          [] c.op = "AddMultiple" ->
                 [M EXCEPT !.output = SWIFFT_Add_(@, h, M.operand, h)]
          [] c.op = "SubMultiple" ->
                 [M EXCEPT !.output = SWIFFT_Sub_(@, h, M.operand, h)]
          [] c.op = "MulMultiple" ->
                 [M EXCEPT !.output = SWIFFT_Mul_(@, h, M.operand, h)]
          [] c.op = "ComputeMultiple" ->
                 [M EXCEPT !.output = SWIFFT_Compute_(M.input, b, @, h)]
          [] c.op = "ComputeMultipleSigned" ->
                 [M EXCEPT !.output = SWIFFT_ComputeSigned_(M.input, b, M.sign, b, @, h)]

\* the single-block calls on blocks 0, 1, ..., n-1, in this order
RECURSIVE SeqCalls(_, _, _)
SeqCalls(c, M, n) ==
    IF n = 0 THEN M ELSE SingleCall(c, SeqCalls(c, M, n - 1), n - 1)

\* C1: with the iterations run in order, the memory after a call of a
\* multi-block function is the memory after the single-block calls on
\* blocks 0..nblocks-1, array for array and element for element; a call
\* with nblocks = 0 changes nothing.
C1_BatchEquivalence ==
    (pc = "done") =>
        /\ \A r \in DOMAIN mem : mem[r] = SeqCalls(call, mem0[r], call.nblocks)
        /\ call.nblocks = 0 => mem = mem0

\* ComputeMultipleSigned returned from two blocks, both rewritten
C1_Witness ==
    /\ pc = "done" /\ call.op = "ComputeMultipleSigned" /\ call.nblocks = 2
    /\ mem[1].output[0] # mem0[1].output[0]
    /\ mem[1].output[HashElems] # mem0[1].output[HashElems]
    /\ mem[1].output[2 * HashElems] = mem0[1].output[2 * HashElems]

\* elements of one block of the array the function writes
OutBlockSize(c) == IF c.op = "fftMultiple" THEN SWIFFT_N * SWIFFT_M ELSE HashElems

\* C7: in two runs of a multi-block function on memories that agree on
\* block i and differ on every other block, block i of the output array is
\* the same after the call; the call leaves the input, sign, operand and
\* key arrays as they were, and the output array from block nblocks on.
C7_PerBlockIndependence ==
    (pc \in {"loop", "done"}) =>
        /\ \A r \in DOMAIN mem :
              /\ mem[r].input = mem0[r].input
              /\ mem[r].sign = mem0[r].sign
              /\ mem[r].operand = mem0[r].operand
              /\ mem[r].consts = mem0[r].consts
              /\ mem[r].key = mem0[r].key
              /\ call.op # "fftMultiple" => mem[r].fftout = mem0[r].fftout
              /\ \A e \in DOMAIN OutputOf(call, mem[r]) :
                     e >= call.nblocks * OutBlockSize(call) =>
                         /\ e \in DOMAIN OutputOf(call, mem0[r])
                         /\ OutputOf(call, mem[r])[e] = OutputOf(call, mem0[r])[e]
        /\ pc = "done" =>
              /\ DOMAIN OutputOf(call, mem[1]) = DOMAIN OutputOf(call, mem[2])
              /\ \A e \in DOMAIN OutputOf(call, mem[1]) :
                     e \div OutBlockSize(call) = call.same =>
                         OutputOf(call, mem[1])[e] = OutputOf(call, mem[2])[e]

\* AddMultiple returned from two blocks in two runs that agree on block 1
\* and differ on block 0, of the operand and of the output
C7_Witness ==
    /\ pc = "done" /\ call.op = "AddMultiple" /\ call.nblocks = 2 /\ call.same = 1
    /\ mem0[1].operand[0] # mem0[2].operand[0]
    /\ mem[1].output[0] # mem[2].output[0]
    /\ mem[1].output[HashElems] # mem0[1].output[HashElems]
    /\ mem[1].output[HashElems] = mem[2].output[HashElems]

\* C9: every element of fftout that fftMultiple(nblocks, input, sign, m,
\* fftout) writes has an index below nblocks*64*m.
C9_FftMultipleExtent ==
    (pc \in {"loop", "done"} /\ call.op = "fftMultiple") =>
        \A e \in log : e < call.nblocks * SWIFFT_N * call.m

---------------------------------------------------------------------------
(* SpecPar: the multi-block functions with nblocks above the
   parallelization threshold, where the iterations of the loop are
   distributed over the threads of a team: with schedule(static) each
   thread runs a chunk of consecutive iterations, in order, and the threads
   run at the same time.  An iteration is two steps of its thread: it reads
   its operands and computes, then it writes its results.  The scratch of
   SWIFFT_compute is a local array of the call, so that the two phases of
   ComputeMultiple are those of fftMultiple and fftsumMultiple.

   call  the function called, nblocks, m and the number of threads
   mem   the memory, mem0 the memory at the call
   v     for each thread: its iteration i, its step, and the results it
         computed and has not written yet
   li    the number of iterations finished
   log   for each iteration, the locations it read and wrote *)

\* largest team
MaxThreads == 2

\* smallest nblocks above the threshold
ParBlocks == SWIFFT_BLOCKS_PARALLELIZATION_THRESHOLD + 1

\* iterations of thread t of T: n / T of them, and one more for the first
\* n % T threads
ChunkLen(n, T, t) == n \div T + (IF t < n % T THEN 1 ELSE 0)

ChunkStart(n, T, t) == t * (n \div T) + (IF t < n % T THEN t ELSE n % T)

ChunkEnd(n, T, t) == ChunkStart(n, T, t) + ChunkLen(n, T, t)

\* bytes of input, and of sign, that fft(.., m, ..) reads
FftReads(m) ==
    UNION {FftLoadReads(i, j) : i \in 0..(FftOuter(m) - 1), j \in 0..(SWIFFT_O - 1)}

\* elements of fftout, and of the key, that fftsum(.., m, ..) reads
FftsumAllReads(m) == UNION {FftsumReads(i) : i \in 0..(m - 1)}

\* the locations off + n, n in S, of the array name
Locs(name, off, S) == {<<name, off + n>> : n \in S}

\* the name of the array the function c.op writes
OutputName(c) == IF c.op = "fftMultiple" THEN "fftout" ELSE "output"

\* locations iteration i of the loop of c.op reads
LoopReads(c, i) ==
    CASE c.op = "fftMultiple" ->
             Locs("input", InputBlock(i), FftReads(c.m))
             \cup Locs("sign", InputBlock(i), FftReads(c.m))
      [] c.op = "fftsumMultiple" ->
             Locs("key", 0, FftsumAllReads(c.m))
             \cup Locs("fftout", FftoutBlock(i), FftsumAllReads(c.m))
      [] c.op = "ConstSetMultiple" -> {<<"consts", i>>}
      [] c.op \in {"ConstAddMultiple", "ConstSubMultiple", "ConstMulMultiple"} ->
             {<<"consts", i>>} \cup Locs("output", HashBlock(i), 0..(HashElems - 1))
      [] c.op = "SetMultiple" -> Locs("operand", OperandBlock(i), 0..(HashElems - 1))
      [] c.op \in {"AddMultiple", "SubMultiple", "MulMultiple"} ->
             Locs("output", HashBlock(i), 0..(HashElems - 1))
             \cup Locs("operand", OperandBlock(i), 0..(HashElems - 1))

\* elements stored by an iteration that takes the array before to the array
\* after: those of span, and any other element that changed
Written(before, after, span) ==
    {e \in DOMAIN after :
        e \in span \/ e \notin DOMAIN before \/ after[e] # before[e]}

\* the elements an iteration stores, with the values it stores
Results(before, after, span) == [e \in Written(before, after, span) |-> after[e]]

ParEnter(name, m, M) == \E T \in 1..MaxThreads :
    /\ pc = "idle"
    /\ ParBlocks > SWIFFT_BLOCKS_PARALLELIZATION_THRESHOLD
    /\ pc' = "par"
    /\ call' = [op |-> name, nblocks |-> ParBlocks, m |-> m, threads |-> T]
    /\ mem' = M
    /\ mem0' = M
    /\ v' = [t \in 0..(T - 1) |->
                [i |-> ChunkStart(ParBlocks, T, t), step |-> "read", tmp |-> Unwritten]]
    /\ li' = 0
    /\ log' = [i \in 0..(ParBlocks - 1) |-> [rd |-> {}, wr |-> {}]]
    /\ UNCHANGED <<log2o, lj>>

ParFftMultiple == ParEnter("fftMultiple", SWIFFT_O, MemFft(ParBlocks))

ParFftsumMultiple == ParEnter("fftsumMultiple", SWIFFT_O, MemFftsum(ParBlocks))

ParConstMultiple ==
    \E name \in {"ConstSetMultiple", "ConstAddMultiple",
                 "ConstSubMultiple", "ConstMulMultiple"} :
        ParEnter(name, 0, MemConst(ParBlocks))

ParOperandMultiple ==
    \E name \in {"SetMultiple", "AddMultiple", "SubMultiple", "MulMultiple"} :
        ParEnter(name, 0, MemOperand(ParBlocks))

\* thread t reads the operands of its iteration and computes its results
ParRead == pc = "par" /\ \E t \in DOMAIN v :
    /\ v[t].step = "read"
    /\ v[t].i < ChunkEnd(call.nblocks, call.threads, t)
    /\ v' = [v EXCEPT ![t] =
                [i |-> v[t].i, step |-> "write",
                 tmp |-> Results(OutputOf(call, mem),
                                 OutputOf(call, LoopBody(call, mem, v[t].i)),
                                 LoopWrites(call, v[t].i))]]
    /\ log' = [log EXCEPT ![v[t].i].rd = LoopReads(call, v[t].i)]
    /\ UNCHANGED <<log2o, pc, call, mem, mem0, li, lj>>

\* thread t writes the results of its iteration and goes to its next one
ParWrite == pc = "par" /\ \E t \in DOMAIN v :
    /\ v[t].step = "write"
    /\ mem' = IF call.op = "fftMultiple"
              THEN [mem EXCEPT !.fftout = v[t].tmp @@ @]
              ELSE [mem EXCEPT !.output = v[t].tmp @@ @]
    /\ log' = [log EXCEPT ![v[t].i].wr = Locs(OutputName(call), 0, DOMAIN v[t].tmp)]
    /\ v' = [v EXCEPT ![t] = [i |-> v[t].i + 1, step |-> "read", tmp |-> Unwritten]]
    /\ li' = li + 1
    /\ UNCHANGED <<log2o, pc, call, mem0, lj>>

\* the end of the parallel loop: every thread is through its chunk
ParJoin ==
    /\ pc = "par"
    /\ \A t \in DOMAIN v :
          v[t].step = "read" /\ v[t].i >= ChunkEnd(call.nblocks, call.threads, t)
    /\ pc' = "done"
    /\ UNCHANGED <<log2o, call, mem, mem0, v, li, lj, log>>

ParReturn ==
    /\ pc = "done"
    /\ pc' = "idle"
    /\ call' = Idle /\ mem' = Idle /\ mem0' = Idle /\ v' = Idle
    /\ li' = 0
    /\ log' = Idle
    /\ UNCHANGED <<log2o, lj>>

ParNext ==
    \/ ParFftMultiple \/ ParFftsumMultiple \/ ParConstMultiple \/ ParOperandMultiple
    \/ ParRead \/ ParWrite \/ ParJoin \/ ParReturn

SpecPar == BatchInit /\ [][ParNext]_vars

\* C2: when the iterations of a multi-block call on arrays that do not
\* overlap are distributed over threads, at every point of every
\* interleaving no two iterations have written the same location and no
\* iteration has read a location another iteration wrote, and at the end
\* of the loop the memory is the one the iterations leave when run in
\* order.
C2_ParallelInsensitivity ==
    (pc \in {"par", "done"}) =>
        /\ \A i \in DOMAIN log : \A j \in DOMAIN log :
              i # j => /\ log[i].wr \cap log[j].wr = {}
                       /\ log[i].rd \cap log[j].wr = {}
        /\ pc = "done" =>
              /\ li = call.nblocks
              /\ \A i \in DOMAIN log : log[i].wr # {}
              /\ mem = SeqCalls(call, mem0, call.nblocks)

\* MulMultiple on two threads, both between the read and the write of an
\* iteration, the second thread ahead of the first
C2_Witness ==
    /\ pc = "par" /\ call.op = "MulMultiple" /\ call.threads = 2
    /\ v[0].step = "write" /\ v[1].step = "write"
    /\ v[0].i = 0 /\ v[1].i > ChunkStart(call.nblocks, 2, 1)
    /\ log[v[1].i - 1].wr # {}

---------------------------------------------------------------------------
(* SpecBfly: the butterflies of one outer iteration of SWIFFT_fft_, lines
   46-73, one stage at a time, on the rows the load loop leaves and on
   other rows of 16-bit lanes.

   call  the rows the butterflies are run on: their kind and number
   mem0  the rows a[0..7] after the load loop
   v     the rows v[0..7]
   log   wrapped: some lane of an AddSub so far did not hold its exact
         result *)

\* largest number of the sample rows
MaxRowSample == 19

\* rows 0..7 of 16-bit lanes: a lane-dependent value in one row only
\* (samples 0..7), values of magnitude up to 4095 in every row, and, for
\* every fifth sample, values of magnitude up to 32760, whose sums wrap
SampleRows(s) ==
    [k \in 0..7 |-> [x \in Lanes |->
        IF s < 8 THEN (IF k = s THEN 100 * x + 3 * s + 1 ELSE 0)
        ELSE LET r == ((k * k * 37 + x * 101 + s * s * 53 + s * (k + 1) * (x + 3) * 7) % 8191) - 4095
             IN  IF s % 5 = 4 THEN 8 * r ELSE r]]

\* the rows the load loop of outer iteration i leaves, lines 38-44
LoadedRows(a, i) ==
    FftLoadFrom(RowsInit, SampleBytes(a), 0, SampleBytes(a + 4), 0, i, 0)

\* both results of SWIFFT_AddSub on rows x and y are the exact sum and
\* difference
AddSubFits(vv, x, y) ==
    \A l \in Lanes : InInt16(vv[x][l] + vv[y][l]) /\ InInt16(vv[x][l] - vv[y][l])

BflyEnter(kind, n, rows) ==
    /\ pc = "idle"
    /\ pc' = "stage1"
    /\ call' = [op |-> "butterflies", kind |-> kind, n |-> n]
    /\ mem0' = rows
    /\ v' = rows
    /\ log' = [wrapped |-> FALSE]
    /\ UNCHANGED <<log2o, mem, li, lj>>

\* the rows of an outer iteration of a call of fft
BflyLoaded == \E a \in {1, 3}, i \in 0..(FftOuter(SWIFFT_M) - 1) :
    BflyEnter("loaded", 100 * a + i, LoadedRows(a, i))

BflySample == \E s \in 0..MaxRowSample :
    BflyEnter("sample", s, SampleRows(s))

BflyStep(from, to, rows, fits) ==
    /\ pc = from
    /\ pc' = to
    /\ v' = rows
    /\ log' = [log EXCEPT !.wrapped = @ \/ ~fits]
    /\ UNCHANGED <<log2o, call, mem, mem0, li, lj>>

\* lines 46-49
BflyStage1 ==
    BflyStep("stage1", "rotate1", FftStage1(v),
             AddSubFits(v, 0, 1) /\ AddSubFits(v, 2, 3)
             /\ AddSubFits(v, 4, 5) /\ AddSubFits(v, 6, 7))

\* lines 51-54
BflyRotate1 == BflyStep("rotate1", "stage2", FftRotate1(v), TRUE)

\* lines 56-59
BflyStage2 ==
    BflyStep("stage2", "rotate2", FftStage2(v),
             AddSubFits(v, 0, 2) /\ AddSubFits(v, 1, 3)
             /\ AddSubFits(v, 4, 6) /\ AddSubFits(v, 5, 7))

\* lines 61-64
BflyRotate2 == BflyStep("rotate2", "stage3", FftRotate2(v), TRUE)

\* lines 66-69
BflyStage3 ==
    BflyStep("stage3", "reduce", FftStage3(v),
             AddSubFits(v, 0, 4) /\ AddSubFits(v, 1, 5)
             /\ AddSubFits(v, 2, 6) /\ AddSubFits(v, 3, 7))

\* lines 71-73
BflyFinalReduce == BflyStep("reduce", "bfly_done", FftFinalReduce(v), TRUE)

BflyReturn ==
    /\ pc = "bfly_done"
    /\ pc' = "idle"
    /\ call' = Idle /\ mem0' = Idle /\ v' = Idle /\ log' = Idle
    /\ UNCHANGED <<log2o, mem, li, lj>>

BflyNext ==
    \/ BflyLoaded \/ BflySample
    \/ BflyStage1 \/ BflyRotate1 \/ BflyStage2 \/ BflyRotate2
    \/ BflyStage3 \/ BflyFinalReduce
    \/ BflyReturn

SpecBfly == CoreInit /\ [][BflyNext]_vars

\* the 16th root of unity modulo 257 whose k-th power shift(v, k)
\* multiplies by: 2^8 = 256 = -1
ShiftRoot == 2

RootPower(e) == (ShiftRoot ^ (e % 16)) % SWIFFT_P

\* the result of shift(a, s) and of qReduce(a) before it is put in the lane
ShiftExact(a, s) == ((a % (2 ^ (8 - s))) * (2 ^ s)) - (a \div (2 ^ (8 - s)))
QReduceExact(a) == (a % 256) - (a \div 256)

\* of every 16-bit lane value, the shifts of the rotations and qReduce fit
\* the lane, shift(a, s) is congruent to a * ShiftRoot^s and qReduce(a) to a
RotationsFitLane ==
    \A a \in -32768..32767 :
        /\ \A s \in {2, 4, 6} :
              /\ InInt16(ShiftExact(a, s))
              /\ SWIFFT_shift(a, s) = ShiftExact(a, s)
              /\ (SWIFFT_shift(a, s) - a * RootPower(s)) % SWIFFT_P = 0
        /\ InInt16(QReduceExact(a))
        /\ SWIFFT_qReduce(a) = QReduceExact(a)
        /\ (SWIFFT_qReduce(a) - a) % SWIFFT_P = 0

\* sum over the first n indices of a[bitrev3(n)] * ShiftRoot^(2 n k), lane l
RECURSIVE NttSum(_, _, _, _)
NttSum(a, k, l, n) ==
    IF n = 0 THEN 0
    ELSE NttSum(a, k, l, n - 1) + a[BitRev3(n - 1)][l] * RootPower(2 * (n - 1) * k)

\* C11: the three butterfly stages compute an 8-point number-theoretic
\* transform.  When the butterflies of lines 46-73 are done and no lane of
\* an AddSub wrapped (the rotations and the reductions cannot wrap), every
\* lane of every row k is congruent modulo 257 to the sum over n = 0..7 of
\* a[bitrev3(n)] * r^(2 n k), with a the rows after the load and r = 2 the
\* 16th root of unity shift multiplies by; the rows are in -127..383 and
\* are those the butterflies computed in one step leave.
C11_ButterflyTransform ==
    (pc = "bfly_done") =>
        /\ v = FftButterflies(mem0)
        /\ \A k \in 0..7 : \A l \in Lanes : v[k][l] \in -127..383
        /\ ~log.wrapped =>
              \A k \in 0..7 : \A l \in Lanes :
                  (v[k][l] - NttSum(mem0, k, l, 8)) % SWIFFT_P = 0
        /\ (call.kind = "sample" /\ call.n = 0 /\ log2o = 0) => RotationsFitLane

\* the butterflies are done on rows the load loop left, no lane wrapped,
\* every row of lane 0 was nonzero and the transform's rows differ
C11_Witness ==
    /\ pc = "bfly_done" /\ call.kind = "loaded" /\ ~log.wrapped
    /\ \A k \in 0..7 : mem0[k][0] # 0
    /\ v[0][0] # v[1][0] /\ v[1][0] # v[5][0]

=============================================================================
